---- MODULE Spec2Model ----
(***************************************************************************)
(* Farm Waste -> Fertilizer Advisor (app.py).                              *)
(*                                                                         *)
(* app.py is a Streamlit script: every user interaction re-executes the    *)
(* whole script from top to bottom with the current widget values.  The    *)
(* state that survives a run is the CSV file, the st.cache_data entry of   *)
(* load_dataset and the widget values.  One action of this model is one    *)
(* user interaction followed by the complete script run it triggers.       *)
(*                                                                         *)
(* Text is a sequence of code points and a float is a double, so that      *)
(* str.strip(), float(), repr() and qty * (yield_pct / 100.0) are computed *)
(* as Python computes them and not assumed.                                *)
(***************************************************************************)
EXTENDS Integers, Sequences, FiniteSets, TLC

\* ------------------------------------------------------------------ bounds
\* Largest number of rows a data frame may have for an append to be offered.
MaxRows == 3
\* The quantity widget takes the values 0, QtyStep, ..., MaxQty * QtyStep.
MaxQty == 1

\* --------------------------------------------------------- program constants
score_cutoff == 50
SelectedScore == 100
DefaultYield == 40
SuggestionLimit == 5
\* the quantities tried are whole multiples of this many kg
QtyStep == 100
\* yield_pct / 100.0
Percent == 100

\* ------------------------------------------------------------------- text
\* A str is the sequence of the code points of its characters (Python's
\* ord), so that every character of Unicode can be written.
Chars ==
  <<" ", "!", "\"", "#", "$", "%", "&", "'", "(", ")", "*", "+", ",", "-", ".", "/",
    "0", "1", "2", "3", "4", "5", "6", "7", "8", "9", ":", ";", "<", "=", ">", "?",
    "@", "A", "B", "C", "D", "E", "F", "G", "H", "I", "J", "K", "L", "M", "N", "O",
    "P", "Q", "R", "S", "T", "U", "V", "W", "X", "Y", "Z", "[", "\\", "]", "^", "_",
    "U+0060", "a", "b", "c", "d", "e", "f", "g", "h", "i", "j", "k", "l", "m", "n",
    "o", "p", "q", "r", "s", "t", "u", "v", "w", "x", "y", "z", "{", "|", "}", "~">>

\* ord(ch) for a character of U+0020..U+007E: Chars lists them in order (the
\* grave accent by its name, it cannot stand in a string here).
ord(ch) == 31 + CHOOSE i \in 1..Len(Chars) : Chars[i] = ch

\* The str written with the characters of x.
Text(x) == [i \in 1..Len(x) |-> ord(x[i])]

\* Characters that are named below.
Blank == ord(" ")
Tab == 9
LineFeed == 10
Return == 13
Zero == ord("0")
Plus == ord("+")
Minus == ord("-")
Point == ord(".")
Underscore == ord("_")
SmallE == ord("e")
CapitalE == ord("E")

\* The characters str.strip() removes, those of str.isspace(): U+0009..U+000D,
\* U+001C..U+001F, U+0020, U+0085, U+00A0, U+1680, U+2000..U+200A, U+2028,
\* U+2029, U+202F, U+205F, U+3000.
Whitespace ==
  (9..13) \cup (28..32) \cup {133, 160, 5760} \cup (8192..8202)
    \cup {8232, 8233, 8239, 8287, 12288}
IsSpace(c) == c \in Whitespace

RECURSIVE lstrip(_)
lstrip(x) == IF x # <<>> /\ IsSpace(Head(x)) THEN lstrip(Tail(x)) ELSE x

RECURSIVE rstrip(_)
rstrip(x) ==
  IF x # <<>> /\ IsSpace(x[Len(x)]) THEN rstrip(SubSeq(x, 1, Len(x) - 1)) ELSE x

\* str.strip()
strip(x) == rstrip(lstrip(x))

\* The digit zero of every run of decimal digits of Unicode (category Nd,
\* Unicode 14): the ten digits of a run follow each other from its zero.
DigitZeros ==
  {48, 1632, 1776, 1984, 2406, 2534, 2662, 2790, 2918, 3046, 3174, 3302, 3430,
   3558, 3664, 3792, 3872, 4160, 4240, 6112, 6160, 6470, 6608, 6784, 6800, 6992,
   7088, 7232, 7248, 42528, 43216, 43264, 43472, 43504, 43600, 44016, 65296,
   66720, 68912, 69734, 69872, 69942, 70096, 70384, 70736, 70864, 71248, 71360,
   71472, 71904, 72016, 72784, 73040, 73120, 92768, 92864, 93008, 120782,
   120792, 120802, 120812, 120822, 123200, 123632, 125264, 130032}

\* unicodedata.decimal(c), or -1 when c is no decimal digit
DecimalOf(c) ==
  IF \E z \in DigitZeros : c - z \in 0..9
    THEN c - (CHOOSE z \in DigitZeros : c - z \in 0..9)
    ELSE -1

IsDigit(c) == c - Zero \in 0..9
DigitVal(c) == c - Zero

\* The value of a str of ASCII digits that fits a machine integer.
RECURSIVE NatOf(_)
NatOf(x) ==
  IF x = <<>> THEN 0 ELSE 10 * NatOf(SubSeq(x, 1, Len(x) - 1)) + DigitVal(x[Len(x)])

\* str.lower() on the letters A-Z
ToLower(x) ==
  [i \in 1..Len(x) |->
     IF x[i] >= 65 /\ x[i] <= 90 THEN x[i] + 32 ELSE x[i]]

\* ------------------------------------------------------- natural numbers
\* A natural number of any size is the sequence of its digits in base 10^4,
\* the most significant first and not 0; the number 0 is <<>>.  The operators
\* work on all the digits at once or halve their range, so that a number of
\* a thousand digits is computed no deeper than one of ten.
Base == 10000
BaseDigits == 4
Max(a, b) == IF a > b THEN a ELSE b

\* The first and the last place of a[lo..hi] that is not 0, or 0 when all are.
RECURSIVE FirstIn(_, _, _)
FirstElse(i, a, lo, hi) == IF i # 0 THEN i ELSE FirstIn(a, lo, hi)
FirstIn(a, lo, hi) ==
  IF lo = hi THEN (IF a[lo] # 0 THEN lo ELSE 0)
  ELSE FirstElse(FirstIn(a, lo, (lo + hi) \div 2), a, (lo + hi) \div 2 + 1, hi)
RECURSIVE LastIn(_, _, _)
LastElse(i, a, lo, hi) == IF i # 0 THEN i ELSE LastIn(a, lo, hi)
LastIn(a, lo, hi) ==
  IF lo = hi THEN (IF a[lo] # 0 THEN lo ELSE 0)
  ELSE LastElse(LastIn(a, (lo + hi) \div 2 + 1, hi), a, lo, (lo + hi) \div 2)

\* a without its leading zeros
Trim(a) ==
  IF Len(a) = 0 \/ FirstIn(a, 1, Len(a)) = 0 THEN <<>>
  ELSE SubSeq(a, FirstIn(a, 1, Len(a)), Len(a))

\* The number written with the decimal digits d, and the count of the decimal
\* digits of a number.
FromDecimal(d) ==
  LET n == (Len(d) + BaseDigits - 1) \div BaseDigits
      At(i) == IF i >= 1 THEN d[i] ELSE 0
      Four(hi) == At(hi - 3) * 1000 + At(hi - 2) * 100 + At(hi - 1) * 10 + At(hi)
  IN IF Len(d) = 0 THEN <<>>
     ELSE Trim([j \in 1..n |-> Four(Len(d) - BaseDigits * (n - j))])
NumDigits(a) ==
  IF a = <<>> THEN 0
  ELSE BaseDigits * (Len(a) - 1)
         + (IF a[1] >= 1000 THEN 4 ELSE IF a[1] >= 100 THEN 3 ELSE IF a[1] >= 10 THEN 2 ELSE 1)

\* The digit of weight Base^(i-1).
LimbAt(a, i) == IF i <= Len(a) THEN a[Len(a) + 1 - i] ELSE 0

\* Columns x (x[1] the least significant, each any integer) are brought to
\* digits in two steps.  Settle keeps of each column what is below Base and
\* hands the rest to the next; after three rounds a column is between -1 and
\* Base.  What is then still to carry starts at a column of Base (or to
\* borrow, of -1) and runs on through columns of Base - 1 (of 0).
Settle(x, n) ==
  SubSeq([i \in 1..n |-> (x[i] % Base) + (IF i > 1 THEN x[i - 1] \div Base ELSE 0)], 1, n)
CarryIn(z, over, under, i) ==
  IF \E j \in over : j < i /\ \A k \in (j + 1)..(i - 1) : z[k] = Base - 1 THEN 1
  ELSE IF \E j \in under : j < i /\ \A k \in (j + 1)..(i - 1) : z[k] = 0 THEN -1
  ELSE 0
Carried(z, n, over, under) ==
  Trim([i \in 1..n |-> (z[n + 1 - i] + CarryIn(z, over, under, n + 1 - i)) % Base])
Settled(z, n) ==
  Carried(z, n, {j \in 1..n : z[j] >= Base}, {j \in 1..n : z[j] < 0})
Normal(x, n) == Settled(Settle(Settle(Settle(x, n), n), n), n)

\* Two columns more than the digits take the carry out of a sum or product.
Add(a, b) ==
  Normal([i \in 1..(Max(Len(a), Len(b)) + 2) |-> LimbAt(a, i) + LimbAt(b, i)],
         Max(Len(a), Len(b)) + 2)
\* a - b for a >= b
Sub(a, b) == Normal([i \in 1..Len(a) |-> LimbAt(a, i) - LimbAt(b, i)], Len(a))
\* a * k for a machine integer k of at most 2^17
Times(a, k) == Normal([i \in 1..(Len(a) + 2) |-> LimbAt(a, i) * k], Len(a) + 2)

\* a * Base^n and a * 10^p
ShiftLimbs(a, n) == IF a = <<>> \/ n <= 0 THEN a ELSE a \o [i \in 1..n |-> 0]
Times10(a, p) ==
  IF a = <<>> \/ p <= 0 THEN a
  ELSE ShiftLimbs(Times(a, 10 ^ (p % BaseDigits)), p \div BaseDigits)

\* a * b, b[lo..hi] at a time
RECURSIVE ProductRange(_, _, _, _)
ProductRange(a, b, lo, hi) ==
  IF lo = hi THEN Times(a, b[lo])
  ELSE Add(ShiftLimbs(ProductRange(a, b, lo, (lo + hi) \div 2), hi - (lo + hi) \div 2),
           ProductRange(a, b, (lo + hi) \div 2 + 1, hi))
Product(a, b) == IF a = <<>> \/ b = <<>> THEN <<>> ELSE ProductRange(a, b, 1, Len(b))

\* 2^k by squaring, and a * 2^k
RECURSIVE PowerOfTwo(_)
Square(h, odd) == Times(Product(h, h), IF odd THEN 2 ELSE 1)
PowerOfTwo(k) ==
  IF k <= 13 THEN <<2 ^ k>> ELSE Square(PowerOfTwo(k \div 2), k % 2 = 1)
Shl(a, k) == IF k <= 0 THEN a ELSE Product(a, PowerOfTwo(k))

\* -1, 0 or 1 as a < b, a = b or a > b
RECURSIVE CmpRange(_, _, _, _)
CmpNext(c, a, b, lo, hi) == IF c # 0 THEN c ELSE CmpRange(a, b, lo, hi)
CmpRange(a, b, lo, hi) ==
  IF lo = hi THEN (IF a[lo] < b[lo] THEN -1 ELSE IF a[lo] > b[lo] THEN 1 ELSE 0)
  ELSE CmpNext(CmpRange(a, b, lo, (lo + hi) \div 2), a, b, (lo + hi) \div 2 + 1, hi)
Cmp(a, b) ==
  IF Len(a) < Len(b) THEN -1
  ELSE IF Len(a) > Len(b) THEN 1
  ELSE IF a = <<>> THEN 0
  ELSE CmpRange(a, b, 1, Len(a))

\* The digit c with c * b <= r < (c + 1) * b, for r < 10 * b.
QuotientDigit(r, b) == Cardinality({c \in 1..9 : Cmp(r, Times(b, c)) >= 0})

\* Long division in decimal: q is the decimal digits of the quotient so far,
\* p the power of ten of the next one.
RECURSIVE DivFrom(_, _, _, _)
DivTake(r, b, p, q, c) == DivFrom(Sub(r, Times(Times10(b, p), c)), b, p - 1, Append(q, c))
DivFrom(r, b, p, q) ==
  IF p < 0 THEN [q |-> FromDecimal(q), r |-> r]
  ELSE IF r = <<>> THEN [q |-> Times10(FromDecimal(q), p + 1), r |-> r]
  ELSE DivTake(r, b, p, q, QuotientDigit(r, Times10(b, p)))
\* quotient q and remainder r of a by b > 0
DivMod(a, b) == DivFrom(a, b, Max(NumDigits(a) - NumDigits(b), 0), <<>>)

IsEven(a) == a = <<>> \/ a[Len(a)] % 2 = 0

\* ------------------------------------------------------------------ values
\* A Python value held in a cell or a script variable: None, NaN, a str, an
\* infinite float or a finite float.  All have the same record shape so that
\* they compare.  A finite float is named by the digits d and the power of
\* ten e of its repr (45.0 is 45 * 10^0, 0.3 is 3 * 10^-1, and
\* 7.000000000000001 is 7000000000000001 * 10^-15), which names one double
\* and one only; neg is the sign bit, so that -0.0 and 0.0 differ.
None == [t |-> "none", s |-> <<>>, neg |-> FALSE, d |-> <<>>, e |-> 0]
NaN == [t |-> "nan", s |-> <<>>, neg |-> FALSE, d |-> <<>>, e |-> 0]
Str(x) == [t |-> "str", s |-> x, neg |-> FALSE, d |-> <<>>, e |-> 0]
Inf(neg) == [t |-> "inf", s |-> <<>>, neg |-> neg, d |-> <<>>, e |-> 0]

\* The float d * 10^e in its one form: d without a zero at either end.
Between(neg, d, e, i, j) ==
  [t |-> "num", s |-> <<>>, neg |-> neg,
   d |-> IF i = 0 THEN <<>> ELSE SubSeq(d, i, j),
   e |-> IF i = 0 THEN 0 ELSE e + Len(d) - j]
Float(neg, d, e) ==
  IF Len(d) = 0 THEN Between(neg, d, e, 0, 0)
  ELSE Between(neg, d, e, FirstIn(d, 1, Len(d)), LastIn(d, 1, Len(d)))

\* The number k (an int of the program, or the float of the same value).
RECURSIVE DecimalOfNat(_)
DecimalOfNat(k) == IF k = 0 THEN <<>> ELSE Append(DecimalOfNat(k \div 10), k % 10)
Num(k) == Float(k < 0, DecimalOfNat(IF k < 0 THEN 0 - k ELSE k), 0)

IsZero(v) == v.t = "num" /\ v.d = <<>>

\* bool(v) as Python's `if v:` computes it (NaN and inf are truthy).
Truthy(v) ==
  CASE v.t = "none" -> FALSE
    [] v.t = "nan" -> TRUE
    [] v.t = "inf" -> TRUE
    [] v.t = "str" -> Len(v.s) > 0
    [] OTHER -> v.d # <<>>

\* --------------------------------------------------------------- doubles
\* A double is m * 2^x with m < 2^53 and -1074 <= x <= 971.
MantissaBits == 53
MinExp == -1074
MaxExp == 971
TwoTo52 == <<4503, 5996, 2737, 496>>
TwoTo53 == <<9007, 1992, 5474, 992>>

\* The binary exponent to start from for a fraction of about 10^t: not above
\* the one of the fraction, and nine below it at most (3.321 < log2(10) <
\* 3.322).
StartExp(t) ==
  Max(MinExp, (IF t >= 0 THEN (t * 3321) \div 1000 ELSE (t * 3322) \div 1000)
                - MantissaBits + 1)

\* While a / b >= 2^53: halve it by doubling b.
RECURSIVE ScaleDown(_, _, _)
ScaleDown(a, b, x) ==
  IF Cmp(a, Product(b, TwoTo53)) >= 0 THEN ScaleDown(a, Times(b, 2), x + 1)
  ELSE <<a, b, x>>
\* a / b as (a / 2^x) / b with 2^52 <= a / (b * 2^x) < 2^53, or below 2^52
\* at the smallest exponent.
ScaleFrom(a, b, x) == ScaleDown(Shl(a, 0 - x), Shl(b, x), x)

\* The double m * 2^x found (a mantissa of 2^53 is 2^52 one exponent up), or
\* zero, or infinity.
Rounded(m, x) ==
  IF m = <<>> THEN [kind |-> "zero", m |-> <<>>, x |-> 0]
  ELSE IF x + (IF m = TwoTo53 THEN 1 ELSE 0) > MaxExp
    THEN [kind |-> "inf", m |-> <<>>, x |-> 0]
  ELSE [kind |-> "num", m |-> IF m = TwoTo53 THEN TwoTo52 ELSE m,
        x |-> x + (IF m = TwoTo53 THEN 1 ELSE 0)]

\* Round to nearest, ties to the even mantissa: one more when the remainder
\* is above the half of b, or is the half and the quotient is odd.
RoundQuotient(qr, b, x) ==
  Rounded(Add(qr.q, IF Cmp(Times(qr.r, 2), b) > (IF IsEven(qr.q) THEN 0 ELSE -1)
                      THEN <<1>> ELSE <<>>),
          x)
RoundScaled(s) == RoundQuotient(DivMod(s[1], s[2]), s[2], s[3])

\* The double nearest to the fraction n / d (n >= 0, d > 0).
RoundToDouble(n, d) ==
  IF n = <<>> THEN Rounded(<<>>, 0)
  ELSE RoundScaled(ScaleFrom(n, d, StartExp(NumDigits(n) - NumDigits(d) - 1)))

\* ---- the shortest digits that name a double (what repr prints)
\* v = r / s is the double, (r + mp) / s and (r - mm) / s the middles between
\* it and its neighbours; a middle rounds to v when v's mantissa is even.
AtHigh(r, mp, s, even) == Cmp(Add(r, mp), s) >= (IF even THEN 0 ELSE 1)

\* The next digit c is the last when what is left (r / s) is within a middle
\* of the end (low) or of the next digit (high); when both, the nearer wins,
\* and of two as near the even digit.
RECURSIVE Generate(_, _, _, _, _, _, _)
Emit(r, s, mp, mm, even, ds, k, c, low, high) ==
  IF ~low /\ ~high THEN Generate(r, s, mp, mm, even, Append(ds, c), k)
  ELSE [d |-> Append(ds, IF high /\ (~low \/ Cmp(Times(r, 2), s) >= (IF c % 2 = 0 THEN 1 ELSE 0))
                           THEN c + 1 ELSE c),
        k |-> k]
Digit(qr, s, mp, mm, even, ds, k) ==
  Emit(qr.r, s, mp, mm, even, ds, k, IF qr.q = <<>> THEN 0 ELSE qr.q[1],
       Cmp(qr.r, mm) <= (IF even THEN 0 ELSE -1), AtHigh(qr.r, mp, s, even))
Generate(r, s, mp, mm, even, ds, k) ==
  Digit(DivMod(Times10(r, 1), s), s, Times10(mp, 1), Times10(mm, 1), even, ds, k)

\* Find k with 10^(k-1) <= (r + mp) / s < 10^k, then generate the digits.
RECURSIVE FixUp(_, _, _, _, _, _)
FixUp(r, s, mp, mm, even, k) ==
  IF AtHigh(r, mp, s, even) THEN FixUp(r, Times10(s, 1), mp, mm, even, k + 1)
  ELSE Generate(r, s, mp, mm, even, <<>>, k)
\* The k to start from is one less than the digits of r exceed those of s,
\* which is not above the k looked for.
Scale(r, s, mp, mm, even) ==
  FixUp(Times10(r, NumDigits(s) + 1 - NumDigits(r)),
        Times10(s, NumDigits(r) - NumDigits(s) - 1),
        Times10(mp, NumDigits(s) + 1 - NumDigits(r)),
        Times10(mm, NumDigits(s) + 1 - NumDigits(r)),
        even, NumDigits(r) - NumDigits(s) - 1)

\* The digits d and the k with 0.d * 10^k the shortest decimal that rounds
\* to the double m * 2^x, the nearest to it among the shortest.  The double
\* below a power of two (m = 2^52) is half as far as the one above.
Shortest(m, x) ==
  Scale(Shl(m, Max(x, 0) + 1 + (IF m = TwoTo52 /\ x > MinExp THEN 1 ELSE 0)),
        PowerOfTwo(Max(0 - x, 0) + 1 + (IF m = TwoTo52 /\ x > MinExp THEN 1 ELSE 0)),
        PowerOfTwo(Max(x, 0) + (IF m = TwoTo52 /\ x > MinExp THEN 1 ELSE 0)),
        PowerOfTwo(Max(x, 0)),
        IsEven(m))

\* The float of a rounded fraction.
Named(neg, sd) == Float(neg, sd.d, sd.k - Len(sd.d))
ToValue(neg, b) ==
  CASE b.kind = "zero" -> Float(neg, <<>>, 0)
    [] b.kind = "inf" -> Inf(neg)
    [] OTHER -> Named(neg, Shortest(b.m, b.x))

\* float of the fraction n / d with the sign neg
Round(neg, n, d) == ToValue(neg, RoundToDouble(n, d))

\* The exact value n / d of a finite float v.  A whole number below 10^15 is
\* a double; any other float is the double nearest to its digits.
FractionOf(b) == [n |-> Shl(b.m, b.x), d |-> PowerOfTwo(Max(0 - b.x, 0))]
Exact(v) ==
  IF v.e >= 0 /\ Len(v.d) + v.e <= 15
    THEN [n |-> Times10(FromDecimal(v.d), v.e), d |-> <<1>>]
  ELSE FractionOf(RoundToDouble(Times10(FromDecimal(v.d), v.e), Times10(<<1>>, 0 - v.e)))

\* The float of the product of two fractions, and 1 / f.
Combine(neg, fa, fb) == Round(neg, Product(fa.n, fb.n), Product(fa.d, fb.d))
Inverse(f) == [n |-> f.d, d |-> f.n]

\* a * b for two floats
Mul(a, b) ==
  CASE a.t = "nan" \/ b.t = "nan" -> NaN
    [] a.t = "inf" \/ b.t = "inf" ->
         IF IsZero(a) \/ IsZero(b) THEN NaN ELSE Inf(a.neg # b.neg)
    [] IsZero(a) \/ IsZero(b) -> Float(a.neg # b.neg, <<>>, 0)
    [] OTHER -> Combine(a.neg # b.neg, Exact(a), Exact(b))

\* a / b for a float a and a finite float b other than zero
Div(a, b) ==
  CASE a.t = "nan" -> NaN
    [] a.t = "inf" -> Inf(a.neg # b.neg)
    [] IsZero(a) -> Float(a.neg # b.neg, <<>>, 0)
    [] OTHER -> Combine(a.neg # b.neg, Exact(a), Inverse(Exact(b)))

\* -v, and v with the sign a literal has
Negate(v) ==
  CASE v.t = "num" -> [v EXCEPT !.neg = ~v.neg]
    [] v.t = "inf" -> [v EXCEPT !.neg = ~v.neg]
    [] OTHER -> v
Signed(neg, v) == IF neg THEN Negate(v) ELSE v

\* ---- float(text)
\* float() first rewrites the characters from U+007F on: a space becomes a
\* blank, a decimal digit its ASCII digit, any other character "?".
TransformDecimalAndSpaceToASCII(x) ==
  [i \in 1..Len(x) |->
     IF x[i] < 127 THEN x[i]
     ELSE IF IsSpace(x[i]) THEN Blank
     ELSE IF DecimalOf(x[i]) >= 0 THEN Zero + DecimalOf(x[i])
     ELSE ord("?")]

\* It then drops the blanks of C's isspace at both ends (U+001C..U+001F are
\* not among them).
IsAsciiSpace(c) == c = Blank \/ (c >= 9 /\ c <= 13)
RECURSIVE StripLeft(_)
StripLeft(x) == IF x # <<>> /\ IsAsciiSpace(Head(x)) THEN StripLeft(Tail(x)) ELSE x
RECURSIVE StripRight(_)
StripRight(x) ==
  IF x # <<>> /\ IsAsciiSpace(x[Len(x)]) THEN StripRight(SubSeq(x, 1, Len(x) - 1)) ELSE x

\* What is left is a sign, then inf, infinity or nan in any case, or digits
\* with an optional point and an optional exponent, where single underscores
\* may stand between two digits.
Unsign(x) == IF x # <<>> /\ Head(x) \in {Plus, Minus} THEN Tail(x) ELSE x
IsNegative(x) == x # <<>> /\ Head(x) = Minus

NotUnderscore(c) == c # Underscore

DigitsOnly(x) == \A i \in 1..Len(x) : IsDigit(x[i])
AllDigits(x) == x # <<>> /\ DigitsOnly(x)

DotAt(x) == {i \in 1..Len(x) : x[i] = Point}
ExpAt(x) == {i \in 1..Len(x) : x[i] = SmallE \/ x[i] = CapitalE}

\* mantissa and exponent of an unsigned literal without underscores
Mantissa(x) ==
  IF ExpAt(x) = {} THEN x ELSE SubSeq(x, 1, (CHOOSE i \in ExpAt(x) : TRUE) - 1)
Exponent(x) ==
  IF ExpAt(x) = {} THEN <<>> ELSE SubSeq(x, (CHOOSE i \in ExpAt(x) : TRUE) + 1, Len(x))
IntPart(m) ==
  IF DotAt(m) = {} THEN m ELSE SubSeq(m, 1, (CHOOSE i \in DotAt(m) : TRUE) - 1)
FracPart(m) ==
  IF DotAt(m) = {} THEN <<>> ELSE SubSeq(m, (CHOOSE i \in DotAt(m) : TRUE) + 1, Len(m))

MantissaOk(m) ==
  /\ Cardinality(DotAt(m)) <= 1
  /\ DigitsOnly(IntPart(m)) /\ DigitsOnly(FracPart(m))
  /\ IntPart(m) # <<>> \/ FracPart(m) # <<>>

\* An unsigned finite literal.
IsUnsigned(x) ==
  /\ \A i \in 1..Len(x) :
        x[i] = Underscore =>
          (i > 1 /\ i < Len(x) /\ IsDigit(x[i - 1]) /\ IsDigit(x[i + 1]))
  /\ LET y == SelectSeq(x, NotUnderscore)
     IN /\ Cardinality(ExpAt(y)) <= 1
        /\ MantissaOk(Mantissa(y))
        /\ ExpAt(y) # {} => AllDigits(Unsign(Exponent(y)))

\* The exponent's value; beyond nine digits it is as good as infinite.
ExpVal(p) ==
  LET ds == Trim([i \in 1..Len(Unsign(p)) |-> DigitVal(Unsign(p)[i])])
      v == IF Len(ds) > 9 THEN 999999999 ELSE NatOf(Unsign(p))
  IN IF IsNegative(p) THEN 0 - v ELSE v

\* The float nearest to sig * 10^pow.  Fifteen digits always name the double
\* nearest to them (DBL_DIG), more digits are rounded; a value of more than
\* 310 digits is infinite and one below 10^-330 is zero.
NearestFloat(sig, pow) ==
  IF sig = <<>> THEN Float(FALSE, <<>>, 0)
  ELSE IF Len(sig) <= 15 /\ Len(sig) + pow >= -300 /\ Len(sig) + pow <= 300
    THEN Float(FALSE, sig, pow)
  ELSE IF Len(sig) + pow > 310 THEN Inf(FALSE)
  ELSE IF Len(sig) + pow < -330 THEN Float(FALSE, <<>>, 0)
  ELSE Round(FALSE, Times10(FromDecimal(sig), pow), Times10(<<1>>, 0 - pow))

\* The value of an unsigned finite literal.
UnsignedVal(x) ==
  LET y == SelectSeq(x, NotUnderscore)
      m == IntPart(Mantissa(y)) \o FracPart(Mantissa(y))
  IN NearestFloat(Trim([i \in 1..Len(m) |-> DigitVal(m[i])]),
                  ExpVal(Exponent(y)) - Len(FracPart(Mantissa(y))))


\* The words float() reads besides numbers, in any case and with a sign.
Words ==
  [nan |-> {Text(<<"n", "a", "n">>)},
   inf |-> {Text(<<"i", "n", "f">>), Text(<<"i", "n", "f", "i", "n", "i", "t", "y">>)}]

\* float(text): [ok |-> FALSE] stands for the ValueError.  x is the text as
\* rewritten and stripped, without its sign.
ParseAscii(neg, x) ==
  IF ToLower(x) \in Words.nan THEN [ok |-> TRUE, v |-> NaN]
  ELSE IF ToLower(x) \in Words.inf THEN [ok |-> TRUE, v |-> Inf(neg)]
  ELSE IF IsUnsigned(x) THEN [ok |-> TRUE, v |-> Signed(neg, UnsignedVal(x))]
  ELSE [ok |-> FALSE, v |-> None]
ParseFloat(text) ==
  ParseAscii(IsNegative(StripRight(StripLeft(TransformDecimalAndSpaceToASCII(text)))),
             Unsign(StripRight(StripLeft(TransformDecimalAndSpaceToASCII(text)))))

\* What a try/except around float() leaves: the value, or the fallback.
ValueOr(r, fallback) == IF r.ok THEN r.v ELSE fallback

\* ---- repr(float)
\* A finite float as Python writes it: plain notation while the decimal point
\* falls within -4 < point <= 16, else d.ddde+XX.
DigitText(d) == [i \in 1..Len(d) |-> Zero + d[i]]
ZeroText(k) == IF k <= 0 THEN <<>> ELSE [i \in 1..k |-> Zero]
FormatUnsigned(d, x) ==
  LET ds == DigitText(d)
      point == Len(d) + x
      ex == point - 1
      exd == DigitText(DecimalOfNat(IF ex < 0 THEN 0 - ex ELSE ex))
  IN IF d = <<>> THEN <<Zero, Point, Zero>>
     ELSE IF point > -4 /\ point <= 16
       THEN IF x >= 0 THEN ds \o ZeroText(x) \o <<Point, Zero>>
            ELSE IF point <= 0 THEN <<Zero, Point>> \o ZeroText(0 - point) \o ds
            ELSE SubSeq(ds, 1, point) \o <<Point>> \o SubSeq(ds, point + 1, Len(d))
     ELSE <<Head(ds)>> \o (IF Len(d) > 1 THEN <<Point>> \o Tail(ds) ELSE <<>>)
          \o <<SmallE>> \o (IF ex < 0 THEN <<Minus>> ELSE <<Plus>>)
          \o (IF Len(exd) < 2 THEN <<Zero>> ELSE <<>>) \o exd

\* repr(v), the text to_csv writes for a float cell ("40.0", "4.5", "-0.0",
\* "1e+16", "inf"); a NaN cell is written empty.
FormatFloat(v) ==
  CASE v.t = "inf" -> (IF v.neg THEN <<Minus>> ELSE <<>>) \o <<ord("i"), ord("n"), ord("f")>>
    [] v.t = "nan" -> <<>>
    [] OTHER -> (IF v.neg THEN <<Minus>> ELSE <<>>) \o FormatUnsigned(v.d, v.e)

\* ------------------------------------------------------- CSV and data frame
\* The file DATA_CSV: exists or not; when it exists, a header (with or without
\* the optional Yield_pct column) and rows of text cells.
NoFile == [exists |-> FALSE, hasYield |-> FALSE, rows |-> <<>>]
CsvFile(hy, rs) == [exists |-> TRUE, hasYield |-> hy, rows |-> rs]

\* pd.DataFrame(): no columns, no rows.
EmptyFrame == [hasYield |-> FALSE, rows |-> <<>>]

\* The fields read_csv takes for a missing value (its default na_values).
NAValues ==
  {<<>>, Text(<<"#", "N", "/", "A">>), Text(<<"#", "N", "/", "A", " ", "N", "/", "A">>),
   Text(<<"#", "N", "A">>), Text(<<"-", "1", ".", "#", "I", "N", "D">>),
   Text(<<"-", "1", ".", "#", "Q", "N", "A", "N">>), Text(<<"-", "N", "a", "N">>),
   Text(<<"-", "n", "a", "n">>), Text(<<"1", ".", "#", "I", "N", "D">>),
   Text(<<"1", ".", "#", "Q", "N", "A", "N">>), Text(<<"<", "N", "A", ">">>),
   Text(<<"N", "/", "A">>), Text(<<"N", "A">>), Text(<<"N", "U", "L", "L">>),
   Text(<<"N", "a", "N">>), Text(<<"n", "/", "a">>), Text(<<"n", "a", "n">>),
   Text(<<"n", "u", "l", "l">>)}

\* A field read_csv reads as a number: a float literal other than nan, in
\* ASCII without underscores.
CsvNumber(x) ==
  /\ \A i \in 1..Len(x) : x[i] < 128 /\ x[i] # Underscore
  /\ \/ IsUnsigned(Unsign(StripRight(StripLeft(x))))
     \/ ToLower(Unsign(StripRight(StripLeft(x)))) \in Words.inf

\* A field read_csv reads as a whole number: a sign and digits.
CsvInteger(x) == AllDigits(Unsign(StripRight(StripLeft(x))))

\* The type pandas infers for the Yield_pct column: whole numbers when every
\* field is one, else numbers when every field that is not a missing value
\* reads as a number, else text.
YieldType(f) ==
  IF f.rows # <<>> /\ \A i \in 1..Len(f.rows) : CsvInteger(f.rows[i].Yield_pct)
    THEN "int64"
  ELSE IF \A i \in 1..Len(f.rows) :
            f.rows[i].Yield_pct \in NAValues \/ CsvNumber(f.rows[i].Yield_pct)
    THEN "float64"
  ELSE "object"

\* A text cell as read_csv returns it: a missing-value field is NaN.  (The
\* names and descriptions used here are letters; a column in which every
\* field is a number would be read as numbers.)
ReadText(x) == IF x \in NAValues THEN NaN ELSE Str(x)

\* A Yield_pct cell as read_csv returns it in a column of the given type; None
\* stands for "no such column".  An integer zero has no sign.  (The conversion
\* is taken to round to the nearest double, as float() does.)
ReadYield(hasYield, type, x) ==
  IF ~hasYield THEN None
  ELSE IF x \in NAValues THEN NaN
  ELSE IF type = "object" THEN Str(x)
  ELSE [ParseFloat(x).v EXCEPT
          !.neg = @ /\ (type # "int64" \/ \E i \in 1..Len(x) : x[i] - Zero \in 1..9)]

\* pd.read_csv(path)
ReadAs(f, type) ==
  [hasYield |-> f.hasYield,
   rows |-> [i \in 1..Len(f.rows) |->
      [WasteType |-> ReadText(f.rows[i].WasteType),
       BestUse |-> ReadText(f.rows[i].BestUse),
       CompostTime |-> ReadText(f.rows[i].CompostTime),
       Nutrient |-> ReadText(f.rows[i].Nutrient),
       Tips |-> ReadText(f.rows[i].Tips),
       Yield_pct |-> ReadYield(f.hasYield, type, f.rows[i].Yield_pct)]]]
read_csv(f) == ReadAs(f, YieldType(f))

\* The text to_csv writes for one cell (NaN and a missing value are written
\* as an empty field, na_rep = '').
WriteCell(v) ==
  CASE v.t = "str" -> v.s
    [] v.t = "num" -> FormatFloat(v)
    [] v.t = "inf" -> FormatFloat(v)
    [] OTHER -> <<>>

\* df.to_csv(DATA_CSV, index=False)
to_csv(d) ==
  CsvFile(d.hasYield,
          [i \in 1..Len(d.rows) |->
             [WasteType |-> WriteCell(d.rows[i].WasteType),
              BestUse |-> WriteCell(d.rows[i].BestUse),
              CompostTime |-> WriteCell(d.rows[i].CompostTime),
              Nutrient |-> WriteCell(d.rows[i].Nutrient),
              Tips |-> WriteCell(d.rows[i].Tips),
              Yield_pct |-> WriteCell(d.rows[i].Yield_pct)]])

\* load_dataset(path): the data frame and whether st.error was emitted.
load_dataset(f) ==
  IF ~f.exists THEN [df |-> EmptyFrame, error |-> TRUE]
  ELSE [df |-> read_csv(f), error |-> FALSE]

\* df.empty
IsEmpty(d) == Len(d.rows) = 0

\* list(df["Waste Type"].values)
waste_list_of(d) == [i \in 1..Len(d.rows) |-> d.rows[i].WasteType]

\* df.append(new_row, ignore_index=True): the columns are the union of the
\* frame's and the row's; a cell nobody supplied is NaN.
FillYield(v, hy) == IF ~hy THEN None ELSE IF v.t = "none" THEN NaN ELSE v
df_append(d, new_row) ==
  LET hy == d.hasYield \/ new_row.Yield_pct.t # "none"
      all == Append(d.rows, new_row)
  IN [hasYield |-> hy,
      rows |-> [i \in 1..Len(all) |->
                  [all[i] EXCEPT !.Yield_pct = FillYield(all[i].Yield_pct, hy)]]]

\* ----------------------------------------------------------------- matcher
\* sc maps a candidate's text to fuzz.WRatio(query, candidate); for a query
\* without characters other than blanks WRatio is 0 and sc is empty.
ScoreOf(sc, choices, i) ==
  IF choices[i].s \in DOMAIN sc THEN sc[choices[i].s] ELSE 0

\* The candidates the scorer is applied to: rapidfuzz passes over a choice
\* that is None or NaN.
Eligible(choices) == {i \in 1..Len(choices) : choices[i].t = "str"}

\* process.extractOne(query, choices, scorer): the first candidate of maximal
\* score, or nothing when there is no candidate.
extractOne(sc, choices) ==
  IF Eligible(choices) = {}
    THEN [found |-> FALSE, match |-> None, score |-> 0, index |-> 0]
  ELSE LET best == CHOOSE i \in Eligible(choices) :
                     /\ \A j \in Eligible(choices) :
                          ScoreOf(sc, choices, j) <= ScoreOf(sc, choices, i)
                     /\ \A j \in Eligible(choices) :
                          j < i => ScoreOf(sc, choices, j) < ScoreOf(sc, choices, i)
       IN [found |-> TRUE, match |-> choices[best],
           score |-> ScoreOf(sc, choices, best), index |-> best]

\* find_best_match with > for >= at line 52.
find_best_match_gt(sc, choices) ==
  LET res == extractOne(sc, choices)
  IN IF res.found
       THEN IF res.score > score_cutoff
              THEN [match |-> res.match, score |-> res.score]
              ELSE [match |-> None, score |-> res.score]
       ELSE [match |-> None, score |-> 0]

\* find_best_match(user_input, choices, score_cutoff=50)
find_best_match(sc, choices) ==
  LET res == extractOne(sc, choices)
  IN IF res.found
       THEN IF res.score >= score_cutoff
              THEN [match |-> res.match, score |-> res.score]
              ELSE [match |-> None, score |-> res.score]
       ELSE [match |-> None, score |-> 0]

\* Candidate j is listed before candidate i: higher score, or equal score
\* and earlier position.
Before(sc, choices, j, i) ==
  \/ ScoreOf(sc, choices, j) > ScoreOf(sc, choices, i)
  \/ ScoreOf(sc, choices, j) = ScoreOf(sc, choices, i) /\ j < i
Rank(sc, choices, i) ==
  Cardinality({j \in Eligible(choices) : Before(sc, choices, j, i)}) + 1
Min(a, b) == IF a < b THEN a ELSE b

\* process.extract without its limit.
extract_unlimited(sc, choices, limit) ==
  [k \in 1..Cardinality(Eligible(choices)) |->
     LET i == CHOOSE i \in Eligible(choices) : Rank(sc, choices, i) = k
     IN [name |-> choices[i], score |-> ScoreOf(sc, choices, i), index |-> i]]

\* process.extract(query, choices, scorer, limit): the limit best candidates,
\* best first, as (choice, score, index).
extract(sc, choices, limit) ==
  [k \in 1..Min(limit, Cardinality(Eligible(choices))) |->
     LET i == CHOOSE i \in Eligible(choices) : Rank(sc, choices, i) = k
     IN [name |-> choices[i], score |-> ScoreOf(sc, choices, i), index |-> i]]

\* ------------------------------------------------------------------ inputs
\* Scores the scorer may return (fuzz.WRatio ranges over 0..100): the lowest,
\* one point below the cutoff, the cutoff, and the highest.
ScoreVals == {0, score_cutoff - 1, score_cutoff, 100}

\* What the user may type in the free-text box: nothing, whitespace only
\* (a blank, a tab, U+3000, and one character of each other kind str.strip()
\* removes: U+001C, U+001F, U+0085, U+00A0, U+1680, U+2000, U+200A, U+2028,
\* U+2029, U+202F, U+205F), and a query with whitespace around it.
IdeographicSpace == 12288
BlankText ==
  <<Blank, Tab, IdeographicSpace, 28, 31, 133, 160, 5760, 8192, 8202, 8232,
    8233, 8239, 8287>>
UserTexts == {<<>>, BlankText, <<LineFeed>> \o Text(<<"x", " ">>)}

\* What the user may submit in the "Add a new waste type" form: a blank name,
\* a new name with an empty field and a yield that does not parse, and a name
\* the tables below already hold, with a yield that parses (" +4.5e1" with
\* an Arabic-Indic four: 45.0).
Form(w, bu, y) ==
  [new_waste |-> w, new_best_use |-> bu, new_compost |-> Text(<<"d">>),
   new_nutrient |-> Text(<<"n", " ">>), new_tips |-> <<Tab, ord("t"), LineFeed>>,
   new_yield |-> y]
Forms ==
  {Form(<<IdeographicSpace, Tab>>, Text(<<"m">>), <<>>),
   Form(Text(<<" ", "r">>), <<>>, Text(<<"y">>)),
   Form(<<ord("c"), Return>>, Text(<<"m", " ">>),
        <<Blank, Plus, 1636>> \o Text(<<".", "5", "e", "1">>))}
EmptyForm ==
  [new_waste |-> <<>>, new_best_use |-> <<>>, new_compost |-> <<>>,
   new_nutrient |-> <<>>, new_tips |-> <<>>, new_yield |-> <<>>]

FileRow(w, y) ==
  [WasteType |-> Text(w), BestUse |-> Text(<<"u">>), CompostTime |-> Text(<<"d">>),
   Nutrient |-> Text(<<"n">>), Tips |-> <<>>, Yield_pct |-> Text(y)]

\* The files a session may find at start: none, a header without rows, and
\* tables with unique names, without and with the Yield_pct column (a number,
\* an empty cell, zero, a negative number, text), one of them longer than the
\* suggestion limit.
InitFiles ==
  {NoFile,
   CsvFile(FALSE, <<>>),
   CsvFile(FALSE, <<FileRow(<<"c">>, <<>>)>>),
   CsvFile(TRUE, <<FileRow(<<"c">>, <<"2", "9">>), FileRow(<<"b">>, <<>>)>>),
   CsvFile(TRUE, <<FileRow(<<"c">>, <<"0">>), FileRow(<<"b">>, <<"-", "5">>)>>),
   CsvFile(TRUE, <<FileRow(<<"c">>, <<"y">>), FileRow(<<"b">>, <<"2", "9">>)>>),
   CsvFile(FALSE, <<FileRow(<<"c">>, <<>>), FileRow(<<"b">>, <<>>),
                    FileRow(<<"d">>, <<>>), FileRow(<<"e">>, <<>>),
                    FileRow(<<"f">>, <<>>), FileRow(<<"g">>, <<>>)>>)}

\* ------------------------------------------------------------------ script
\* Lines 58-69 with the two tests in the other order.
Selection_text_first(sel, ut, sc, choices) ==
  IF strip(ut) # <<>>
    THEN LET r == find_best_match(sc, choices)
         IN [matched_type |-> IF Truthy(r.match) THEN r.match ELSE None,
             match_score |-> Num(r.score), find_calls |-> 1]
  ELSE IF Truthy(sel)
    THEN [matched_type |-> sel, match_score |-> Num(SelectedScore), find_calls |-> 0]
  ELSE [matched_type |-> None, match_score |-> None, find_calls |-> 0]

\* Lines 58-69 without the strip() of line 63.
Selection_no_strip(sel, ut, sc, choices) ==
  IF Truthy(sel)
    THEN [matched_type |-> sel, match_score |-> Num(SelectedScore), find_calls |-> 0]
  ELSE IF ut # <<>>
    THEN LET r == find_best_match(sc, choices)
         IN [matched_type |-> IF Truthy(r.match) THEN r.match ELSE None,
             match_score |-> Num(r.score), find_calls |-> 1]
  ELSE [matched_type |-> None, match_score |-> None, find_calls |-> 0]

\* Lines 58-69: matched_type and match_score; find_calls counts the calls of
\* find_best_match made by this run.
Selection(sel, ut, sc, choices) ==
  IF Truthy(sel)
    THEN [matched_type |-> sel, match_score |-> Num(SelectedScore), find_calls |-> 0]
  ELSE IF strip(ut) # <<>>
    THEN LET r == find_best_match(sc, choices)
         IN [matched_type |-> IF Truthy(r.match) THEN r.match ELSE None,
             match_score |-> Num(r.score), find_calls |-> 1]
  ELSE [matched_type |-> None, match_score |-> None, find_calls |-> 0]

\* float(yp) inside try/except: a number is itself, NaN stays NaN, a str is
\* parsed, and the ValueError of an unparseable str gives the default.
ToFloat(yp) ==
  CASE yp.t = "num" -> yp
    [] yp.t = "nan" -> NaN
    [] yp.t = "inf" -> yp
    [] OTHER -> ValueOr(ParseFloat(yp.s), Num(DefaultYield))

\* qty * (yield_pct / 100.0) for a quantity q > 0: a division and a product
\* of doubles, each rounded.
EstimateOf(q, y) == Mul(Num(q), Div(y, Num(Percent)))

\* The yields the files and forms above lead to (29, 0, -5, 45, the default
\* and NaN) and the estimates for them, computed once; any other estimate is
\* computed when asked for.
YieldsInPlay ==
  {Num(29), Num(0), Num(-5), Num(45), Num(DefaultYield), NaN}
EstimateTable ==
  {[q |-> p[1], y |-> p[2], est |-> EstimateOf(p[1], p[2])] :
     p \in {k * QtyStep : k \in 1..MaxQty} \X YieldsInPlay}
EstimateFrom(known, q, y) ==
  IF known = {} THEN EstimateOf(q, y) ELSE (CHOOSE r \in known : TRUE).est
Estimate(q, y) == EstimateFrom({r \in EstimateTable : r.q = q /\ r.y = y}, q, y)

\* Lines 80-91: yield_pct and est_compost of a matched row for quantity q.
WithYield(q, y) == [yield_pct |-> y, est_compost |-> Estimate(q, y)]
YieldEstimate(waste_row, q) ==
  IF q > 0
    THEN WithYield(q, IF waste_row.Yield_pct.t # "none"
                        THEN ToFloat(waste_row.Yield_pct) ELSE Num(DefaultYield))
    ELSE [yield_pct |-> None, est_compost |-> None]

\* df[df["Waste Type"] == matched_type]: the positions of the rows selected
\* (NaN equals nothing).
RowsNamed(d, mt) ==
  {i \in 1..Len(d.rows) : mt.t = "str" /\ d.rows[i].WasteType = mt}

\* Lines 71-122: what the Recommendation section shows.
Recommendation(d, pick, ut, q, sc) ==
  IF Truthy(pick.matched_type)
    THEN IF RowsNamed(d, pick.matched_type) = {}
           THEN [outcome |-> "IndexError", waste_row |-> 0, yield_pct |-> None,
                 est_compost |-> None, suggestions |-> <<>>, extract_calls |-> 0]
           ELSE LET i == CHOOSE i \in RowsNamed(d, pick.matched_type) :
                           \A j \in RowsNamed(d, pick.matched_type) : i <= j
                IN [outcome |-> "Matched", waste_row |-> i,
                    suggestions |-> <<>>, extract_calls |-> 0]
                     @@ YieldEstimate(d.rows[i], q)
  ELSE IF strip(ut) = <<>>
    THEN [outcome |-> "EmptyInput", waste_row |-> 0, yield_pct |-> None,
          est_compost |-> None, suggestions |-> <<>>, extract_calls |-> 0]
  ELSE [outcome |-> "Unmatched", waste_row |-> 0, yield_pct |-> None,
        est_compost |-> None,
        suggestions |-> extract(sc, waste_list_of(d), SuggestionLimit),
        extract_calls |-> 1]

\* Lines 140-151: new_row built from the form; a yield that is blank or does
\* not parse leaves the key out (None).
NewRow(fm) ==
  [WasteType |-> Str(strip(fm.new_waste)),
   BestUse |-> Str(strip(fm.new_best_use)),
   CompostTime |-> Str(strip(fm.new_compost)),
   Nutrient |-> Str(strip(fm.new_nutrient)),
   Tips |-> Str(strip(fm.new_tips)),
   Yield_pct |-> IF strip(fm.new_yield) # <<>>
                   THEN ValueOr(ParseFloat(strip(fm.new_yield)), None)
                   ELSE None]

\* Lines 152-153: the row is appended to df and the frame written to the file.
Save(d, new_row) ==
  [add_msg |-> "success", file |-> to_csv(df_append(d, new_row)), row |-> new_row]

\* The add handler without the strip() of line 137.
AddHandler_no_strip(d, f, fm, click) ==
  IF ~click THEN [add_msg |-> "none", file |-> f, row |-> None]
  ELSE IF fm.new_waste = <<>> THEN [add_msg |-> "error", file |-> f, row |-> None]
  ELSE Save(d, NewRow(fm))

\* Lines 136-154: the "Add new waste type" button: what is shown, the file
\* afterwards and the row written.
AddHandler(d, f, fm, click) ==
  IF ~click THEN [add_msg |-> "none", file |-> f, row |-> None]
  ELSE IF strip(fm.new_waste) = <<>> THEN [add_msg |-> "error", file |-> f, row |-> None]
  ELSE Save(d, NewRow(fm))

\* ------------------------------------------------------------------- state
VARIABLES
  data_csv,       \* the file DATA_CSV
  cache,          \* the st.cache_data entry of load_dataset()
  running,        \* a session has run the script at least once
  user_text, qty, selected, form,   \* widget values
  scores,         \* the scorer's answers for the current query, <<>> if unused
  halted,         \* the last run ended in st.stop()
  error_shown,    \* the last run showed st.error("Dataset not found")
  outcome, matched_type, match_score, waste_row,
  yield_pct, est_compost, suggestions,
  find_calls, extract_calls,   \* calls of find_best_match / process.extract
  add_msg,        \* "none", "error" or "success" of the add handler
  appended        \* rows the add handler has written in this session

vars ==
  <<data_csv, cache, running, user_text, qty, selected, form, scores, halted,
    error_shown, outcome, matched_type, match_score, waste_row, yield_pct,
    est_compost, suggestions, find_calls, extract_calls, add_msg, appended>>

df == cache.df
waste_list == waste_list_of(df)
NoSelection == Str(<<>>)

\* The scorer is consulted only when nothing is selected and the stripped
\* text is not empty.
UsesScorer(sel, ut) == ~Truthy(sel) /\ strip(ut) # <<>>

\* The scorer is a function of the query: it keeps its answers while the
\* stripped query is the one it last answered for.
ScoreChoices(d, sel, ut) ==
  IF ~UsesScorer(sel, ut) THEN {<<>>}
  ELSE IF scores # <<>> /\ strip(user_text) = strip(ut) THEN {scores}
  ELSE [{d.rows[i].WasteType.s : i \in 1..Len(d.rows)} -> ScoreVals]

\* Lines 24-31: df = load_dataset() through st.cache_data: the function runs
\* only when the cache has no entry, and its st.error is replayed with it.
Fresh(f) == [loaded |-> TRUE] @@ load_dataset(f)
Cached(f) == IF cache.loaded THEN cache ELSE Fresh(f)

\* One execution of app.py with cache entry c, file f, the given widget
\* values and state of the Add button; app is the rows this session wrote.
Script(c, f, ut, q, sel, sc, fm, click, app) ==
  /\ cache' = c
  /\ running' = TRUE
  /\ error_shown' = c.error
  /\ user_text' = ut /\ qty' = q /\ selected' = sel
  /\ scores' = sc /\ form' = fm
  /\ IF IsEmpty(c.df)
       THEN /\ halted' = TRUE
            /\ outcome' = "Halted"
            /\ matched_type' = None /\ match_score' = None /\ waste_row' = 0
            /\ yield_pct' = None /\ est_compost' = None /\ suggestions' = <<>>
            /\ find_calls' = 0 /\ extract_calls' = 0 /\ add_msg' = "none"
            /\ data_csv' = f
            /\ appended' = app
       ELSE \E pick \in {Selection(sel, ut, sc, waste_list_of(c.df))} :
            \E rec \in {Recommendation(c.df, pick, ut, q, sc)} :
            \E add \in {AddHandler(c.df, f, fm, click /\ rec.outcome # "IndexError")} :
               /\ halted' = FALSE
               /\ outcome' = rec.outcome
               /\ matched_type' = pick.matched_type
               /\ match_score' = pick.match_score
               /\ waste_row' = rec.waste_row
               /\ yield_pct' = rec.yield_pct
               /\ est_compost' = rec.est_compost
               /\ suggestions' = rec.suggestions
               /\ find_calls' = pick.find_calls
               /\ extract_calls' = rec.extract_calls
               /\ add_msg' = add.add_msg
               /\ data_csv' = add.file
               /\ appended' = IF add.add_msg = "success"
                                THEN app \cup {add.row} ELSE app

Init ==
  /\ data_csv \in InitFiles
  /\ cache = [loaded |-> FALSE, df |-> EmptyFrame, error |-> FALSE]
  /\ running = FALSE
  /\ user_text = <<>> /\ qty = 0 /\ selected = NoSelection /\ form = EmptyForm
  /\ scores = <<>>
  /\ halted = FALSE /\ error_shown = FALSE /\ outcome = "None"
  /\ matched_type = None /\ match_score = None /\ waste_row = 0
  /\ yield_pct = None /\ est_compost = None /\ suggestions = <<>>
  /\ find_calls = 0 /\ extract_calls = 0 /\ add_msg = "none"
  /\ appended = {}

\* The browser opens the app: the first run, with every widget at its default.
Start ==
  /\ ~running
  /\ Script(Cached(data_csv), data_csv, <<>>, 0, NoSelection, <<>>, EmptyForm,
            FALSE, {})

\* The user edits the free-text box.
SetUserText ==
  /\ running /\ ~halted
  /\ \E t \in UserTexts \ {user_text} :
       \E sc \in ScoreChoices(df, selected, t) :
          Script(Cached(data_csv), data_csv, t, qty, selected, sc, form, FALSE,
                 appended)

\* The user changes the quantity.
SetQty ==
  /\ running /\ ~halted
  /\ \E k \in 0..MaxQty :
       /\ k * QtyStep # qty
       /\ Script(Cached(data_csv), data_csv, user_text, k * QtyStep, selected,
                 scores, form, FALSE, appended)

\* The user picks an entry of the select box ("" or a name of waste_list).
SetSelected ==
  /\ running /\ ~halted
  /\ \E s \in ({NoSelection} \cup {waste_list[i] : i \in 1..Len(waste_list)}) \ {selected} :
       \E sc \in ScoreChoices(df, s, user_text) :
          Script(Cached(data_csv), data_csv, user_text, qty, s, sc, form, FALSE,
                 appended)

\* The user fills the form and presses "Add new waste type".
ClickAdd ==
  /\ running /\ ~halted
  /\ \E fm \in Forms :
       /\ strip(fm.new_waste) = <<>> \/ Len(df.rows) < MaxRows
       /\ Script(Cached(data_csv), data_csv, user_text, qty, selected, scores,
                 fm, TRUE, appended)

\* The server process is restarted and the app opened again: the cache and
\* the widget values are gone, the file is what the last run left.
Restart ==
  /\ running
  /\ Script(Fresh(data_csv), data_csv, <<>>, 0, NoSelection, <<>>, EmptyForm,
            FALSE, {})

Next == Start \/ SetUserText \/ SetQty \/ SetSelected \/ ClickAdd \/ Restart

Spec == Init /\ [][Next]_vars

\* ------------------------------------------------------------------ claims
\* A run that reached the Recommendation section.
Ran == running /\ ~halted

\* The largest score the scorer gives to a name of waste_list.
MaxScore ==
  CHOOSE m \in {ScoreOf(scores, waste_list, i) : i \in 1..Len(waste_list)} :
     \A j \in 1..Len(waste_list) : ScoreOf(scores, waste_list, j) <= m

\* C1: whenever an entry of the select box is chosen, whatever the free text,
\* the run calls neither find_best_match nor process.extract, and the outcome
\* is Matched with matched_type the chosen name and match_score 100.
C1_ExactSelection ==
  (Ran /\ Truthy(selected)) =>
     /\ find_calls = 0 /\ extract_calls = 0
     /\ outcome = "Matched"
     /\ matched_type = selected
     /\ match_score = Num(SelectedScore)
     /\ df.rows[waste_row].WasteType = selected

\* C1 witness: an entry is chosen while the free text holds a query.
C1_Witness ==
  /\ Ran /\ Truthy(selected) /\ strip(user_text) # <<>>
  /\ outcome = "Matched" /\ match_score = Num(SelectedScore)

\* C2: whenever find_best_match is called, with m the largest score of the
\* candidates: if m >= 50 the match is a candidate scoring m and the score is
\* m; if m < 50 there is no match, the score is still m, and the run takes
\* the suggestions path, whose first entry carries m.
C2_Threshold ==
  (Ran /\ find_calls = 1) =>
     IF MaxScore >= score_cutoff
       THEN /\ outcome = "Matched"
            /\ \E i \in 1..Len(waste_list) :
                  waste_list[i] = matched_type /\ ScoreOf(scores, waste_list, i) = MaxScore
            /\ match_score = Num(MaxScore)
       ELSE /\ outcome = "Unmatched"
            /\ matched_type = None
            /\ match_score = Num(MaxScore)
            /\ extract_calls = 1
            /\ suggestions[1].score = MaxScore

\* C2 witness: the best candidate scores exactly the cutoff and is accepted.
C2_Witness ==
  /\ Ran /\ find_calls = 1 /\ MaxScore = score_cutoff
  /\ outcome = "Matched" /\ match_score = Num(score_cutoff)

\* C3: with nothing selected and a free text that is empty or blank, the
\* outcome is EmptyInput, neither find_best_match nor process.extract is
\* called, and there is no match, no score and no suggestion.
C3_EmptyInput ==
  (Ran /\ ~Truthy(selected) /\ strip(user_text) = <<>>) =>
     /\ outcome = "EmptyInput"
     /\ find_calls = 0 /\ extract_calls = 0
     /\ matched_type = None /\ match_score = None
     /\ suggestions = <<>>
     /\ est_compost = None

\* C3 witness: the free text is blank but not empty, and a quantity is set.
C3_Witness ==
  /\ Ran /\ ~Truthy(selected) /\ user_text = BlankText /\ qty > 0
  /\ outcome = "EmptyInput"

\* The value float() gives for a cell, and whether the cell holds a valid
\* positive number.
IsPositive(v) == v.t = "num" /\ ~v.neg /\ v.d # <<>>
YieldValue(cell) == IF cell.t = "str" THEN ParseFloat(cell.s).v ELSE cell
PositiveYield(cell) ==
  /\ cell.t = "str" => ParseFloat(cell.s).ok
  /\ IsPositive(YieldValue(cell))

\* C4 (as claimed): on a match with a quantity above 0 the yield used is the
\* row's Yield_pct when that is a valid positive number and 40 in every other
\* case, and the estimate quantity * yield / 100 is a positive number.
C4_YieldFallback ==
  (Ran /\ outcome = "Matched" /\ qty > 0) =>
     LET cell == df.rows[waste_row].Yield_pct
         y == IF PositiveYield(cell) THEN YieldValue(cell) ELSE Num(DefaultYield)
     IN /\ yield_pct = y
        /\ est_compost = Estimate(qty, y)
        /\ IsPositive(est_compost)

\* C5: a press of the Add button with an empty or blank name is answered
\* with the error message, leaves the file, the cached catalog and the rows
\* written so far as they were, and leaves the session running.
C5_AppendRejectsEmptyName ==
  [][(add_msg' # "none" /\ strip(form'.new_waste) = <<>>) =>
        /\ add_msg' = "error"
        /\ data_csv' = data_csv
        /\ cache' = cache
        /\ appended' = appended
        /\ running' /\ ~halted']_vars

\* C5 witness: the button was pressed with a blank name.
C5_Witness ==
  /\ Ran /\ add_msg = "error" /\ form.new_waste = <<IdeographicSpace, Tab>>
  /\ data_csv.exists

\* Row r of a loaded frame carries the values of new_row (Yield_pct compared
\* only when new_row has one).
SameFields(r, new_row) ==
  /\ r.WasteType = new_row.WasteType
  /\ r.BestUse = new_row.BestUse
  /\ r.CompostTime = new_row.CompostTime
  /\ r.Nutrient = new_row.Nutrient
  /\ r.Tips = new_row.Tips
  /\ new_row.Yield_pct.t # "none" => r.Yield_pct = new_row.Yield_pct
Holds(d, r) == \E i \in 1..Len(d.rows) : d.rows[i] = r

\* C6 (as claimed): after a successful append the file, loaded again, holds a
\* row with the appended values, and every row the file held before.
C6_AppendRoundTrip ==
  [][add_msg' = "success" =>
        /\ \E i \in 1..Len(data_csv'.rows) :
              SameFields(read_csv(data_csv').rows[i], NewRow(form'))
        /\ \A i \in 1..Len(data_csv.rows) :
              Holds(read_csv(data_csv'), read_csv(data_csv).rows[i])]_vars

UniqueNames(rows) ==
  \A i, j \in 1..Len(rows) : rows[i].WasteType = rows[j].WasteType => i = j

\* C7 (as claimed): no two rows of the file, and no two rows of the cached
\* catalog, have the same name.
C7_UniqueNames == UniqueNames(data_csv.rows) /\ UniqueNames(df.rows)

\* C8 (as claimed): when the file was missing at load time or the loaded
\* catalog is empty, an error is shown and the run halts: no matcher call,
\* no outcome, no append.
C8_FatalLoad ==
  (running /\ IsEmpty(df)) =>
     /\ error_shown
     /\ halted /\ outcome = "Halted"
     /\ find_calls = 0 /\ extract_calls = 0
     /\ add_msg = "none" /\ appended = {}

\* suggestions is sorted: non-increasing score, equal scores by position.
SortedSuggestions ==
  \A k \in 1..(Len(suggestions) - 1) :
     \/ suggestions[k].score > suggestions[k + 1].score
     \/ /\ suggestions[k].score = suggestions[k + 1].score
        /\ suggestions[k].index < suggestions[k + 1].index

\* C9: with a query, nothing selected and the best score below the cutoff,
\* the run lists min(5, catalog size) suggestions taken from waste_list with
\* their scores, sorted, none of the unlisted names scoring higher than a
\* listed one; there is no suggestion on the other paths.
C9_Suggestions ==
  /\ (Ran /\ UsesScorer(selected, user_text) /\ MaxScore < score_cutoff) =>
        /\ outcome = "Unmatched" /\ extract_calls = 1
        /\ Len(suggestions) = Min(SuggestionLimit, Len(waste_list))
        /\ \A k \in 1..Len(suggestions) :
              /\ suggestions[k].index \in 1..Len(waste_list)
              /\ suggestions[k].name = waste_list[suggestions[k].index]
              /\ suggestions[k].score = ScoreOf(scores, waste_list, suggestions[k].index)
        /\ SortedSuggestions
        /\ \A i \in 1..Len(waste_list) :
              \/ \E k \in 1..Len(suggestions) : suggestions[k].index = i
              \/ \A k \in 1..Len(suggestions) :
                    suggestions[k].score >= ScoreOf(scores, waste_list, i)
  /\ (running /\ outcome # "Unmatched") => (suggestions = <<>> /\ extract_calls = 0)

\* C9 witness: a catalog longer than the limit, five suggestions, two of
\* them with the same score and two with different scores.
C9_Witness ==
  /\ Ran /\ outcome = "Unmatched"
  /\ Len(waste_list) > SuggestionLimit /\ Len(suggestions) = SuggestionLimit
  /\ \E k \in 1..(Len(suggestions) - 1) : suggestions[k].score = suggestions[k + 1].score
  /\ \E k \in 1..(Len(suggestions) - 1) : suggestions[k].score > suggestions[k + 1].score

\* The file holds the row r as the add handler wrote it.
Written(f, r) ==
  \E i \in 1..Len(f.rows) :
     /\ f.rows[i].WasteType = WriteCell(r.WasteType)
     /\ f.rows[i].BestUse = WriteCell(r.BestUse)
     /\ f.rows[i].CompostTime = WriteCell(r.CompostTime)
     /\ f.rows[i].Nutrient = WriteCell(r.Nutrient)
     /\ f.rows[i].Tips = WriteCell(r.Tips)
     /\ f.rows[i].Yield_pct = WriteCell(r.Yield_pct)

\* C10 (as claimed): every row appended in the running session is in the
\* file after each later append.
C10_NoLostAppends == \A r \in appended : Written(data_csv, r)

====
